---- MODULE Spec2Model ----
(***************************************************************************)
(* State-machine model of global-ce-stats: src/ce_stats.py (the library),  *)
(* src/global-ce-stats.py (the current-stats run) and                       *)
(* src/gwms-ce-counts.py (the historical series driver).                    *)
(*                                                                         *)
(* A Python string is a sequence of lexemes.  The separators ":" and " "   *)
(* are lexemes of their own; every other lexeme is a run of characters     *)
(* that holds neither, so str.split sees exactly what it sees in Python.   *)
(* A Python call that may raise returns a record [exc, val]: exc = "None"  *)
(* when it returns val, the exception's type name when it raises.          *)
(***************************************************************************)
EXTENDS Integers, Sequences, FiniteSets, TLC

VARIABLES
    \* -- normalizer harness (ce_stats._ce_fqdn)
    contact,      \* the contact string handed to _ce_fqdn
    host,         \* the outcome of _ce_fqdn(contact)
    refqdn,       \* the outcome of _ce_fqdn applied to that outcome's value
    npc,          \* "input" | "normalized" | "renormalized"
    \* -- endpoint discovery of the current-stats run (global-ce-stats.py, lines 12-15)
    snapshot,     \* the cloned work tree: document name -> its <entry> elements
    registry,     \* the registry's JSON body: the resource records, in document order
    gwms_ces,     \* main's gwms_ces
    panda_ces,    \* the value of get_panda_ces()
    ce_fqdns,     \* main's ce_fqdns
    dexc,         \* the exception that ended the run, "None" while there is none
    dpc,          \* "start" | "extracted" | "queried" | "reconciled" | "raised"
    \* -- the report loop of the current-stats run (global-ce-stats.py, lines 29-37)
    todo,         \* the endpoints the for loop has not reached yet
    answers,      \* endpoint -> what its collector and schedd did when queried
    rows,         \* the rows handed to writer.writerow, in order
    tpc,          \* "loop" | "done"
    \* -- one GitRepo resolver and its scope (ce_stats.GitRepo)
    origin,       \* the repository at self.repo: its commits, their parents and dates
    dirs,         \* the directories mkdtemp created that still exist on disk
    path,         \* self.path, 0 before mkdtemp
    master,       \* the commit the clone's master names, 0 while there is no clone
    HEAD,         \* the commit checked out in the work tree, 0 while there is none
    head,         \* self.head, 0 while unset
    query,        \* the last checkout_at_date call: its date, the clock, HEAD before it
    gpc,          \* "start" | "in_scope" | "body_raised" | "exited" | "raised"
    \* -- the historical series driver (gwms-ce-counts.py main)
    today,        \* the value of date.today()
    midnights,    \* the midnights that have passed since main began
    query_date,   \* main's query_date
    months,       \* the MONTH of the rows handed to writer.writerow, in order
    spc           \* "start" | "loop" | "done" | "raised"

normVars == <<contact, host, refqdn, npc>>

discVars == <<snapshot, registry, gwms_ces, panda_ces, ce_fqdns, dexc, dpc>>

tallyVars == <<todo, answers, rows, tpc>>

repoVars == <<origin, dirs, path, master, HEAD, head, query, gpc>>

seriesVars == <<today, midnights, query_date, months, spc>>

vars == <<normVars, discVars, tallyVars, repoVars, seriesVars>>

-----------------------------------------------------------------------------
(* Bounds *)

\* longest contact string, in lexemes, the normalizer harness enumerates
MaxLen == 5

\* most <entry> elements in a snapshot, over all its documents
MaxEntries == 2

\* most resource records in a registry response
MaxResources == 2

\* most job records a schedd returns
MaxJobs == 2

\* most commits in the factory repository
NCommits == 3

\* the last day on which the factory repository has a commit; days count from 0
MaxDay == 2

\* the years after the series' first in which the driver may be run
MaxYears == 2

\* most midnights that pass while the driver runs
MaxMidnights == 1

-----------------------------------------------------------------------------
(* Python values *)

Returned(v) == [exc |-> "None", val |-> v]

Raised(e) == [exc |-> e, val |-> <<>>]

NotRun == [exc |-> "NotRun", val |-> <<>>]

\* str.isspace of a one-character lexeme
IsSpace(c) == c \in {" ", "\t"}

\* strings of length 0..n over the alphabet A
StringsUpTo(A, n) == UNION {[1..k -> A] : k \in 0..n}

\* the empty dict
EmptyDict == [k \in {} |-> {}]

-----------------------------------------------------------------------------
(* The components a specification leaves out stay in these states *)

NormIdle ==
    /\ contact = <<>>
    /\ host = NotRun
    /\ refqdn = NotRun
    /\ npc = "idle"

DiscIdle ==
    /\ snapshot = [f \in {} |-> {}]
    /\ registry = <<>>
    /\ gwms_ces = {}
    /\ panda_ces = EmptyDict
    /\ ce_fqdns = {}
    /\ dexc = "None"
    /\ dpc = "idle"

TallyIdle ==
    /\ todo = {}
    /\ answers = [h \in {} |-> {}]
    /\ rows = <<>>
    /\ tpc = "idle"

\* no checkout_at_date call yet
NoQuery == [date_obj |-> -1, now |-> 0, from |-> 0]

RepoIdle ==
    /\ origin = [n |-> 0, parents |-> <<>>, date |-> <<>>]
    /\ dirs = {}
    /\ path = 0
    /\ master = 0
    /\ HEAD = 0
    /\ head = 0
    /\ query = NoQuery
    /\ gpc = "idle"

\* datetime.date(year, month, day)
date(year, month, day) == [year |-> year, month |-> month, day |-> day]

SeriesIdle ==
    /\ today = date(1, 1, 1)
    /\ midnights = 0
    /\ query_date = date(1, 1, 1)
    /\ months = <<>>
    /\ spc = "idle"

-----------------------------------------------------------------------------
(* ce_stats._ce_fqdn *)

\* str.split(sep): the fields between the occurrences of sep, empty ones kept
RECURSIVE split(_, _)
split(s, sep) ==
    IF \A i \in 1..Len(s) : s[i] # sep
    THEN <<s>>
    ELSE LET k == CHOOSE i \in 1..Len(s) :
                      s[i] = sep /\ \A j \in 1..(i - 1) : s[j] # sep
         IN  <<SubSeq(s, 1, k - 1)>> \o split(SubSeq(s, k + 1, Len(s)), sep)

\* str.split(): the maximal runs of non-whitespace, no empty field
RECURSIVE split_ws(_)
split_ws(s) ==
    IF \A i \in 1..Len(s) : IsSpace(s[i])
    THEN <<>>
    ELSE LET a == CHOOSE i \in 1..Len(s) :
                      ~IsSpace(s[i]) /\ \A j \in 1..(i - 1) : IsSpace(s[j])
             stops == {i \in (a + 1)..Len(s) : IsSpace(s[i])}
             b == IF stops = {} THEN Len(s) + 1
                  ELSE CHOOSE i \in stops : \A j \in stops : i <= j
         IN  <<SubSeq(s, a, b - 1)>> \o split_ws(SubSeq(s, b, Len(s)))

\* global_ces._ce_fqdn, the older variant: the port is cut, the first token is not taken
ce_fqdn_colon_only(contact_str) == Returned(split(contact_str, ":")[1])

\* contact_str.split(':')[0].split()[0]; [0] of an empty list raises IndexError
_ce_fqdn(contact_str) ==
    LET tokens == split_ws(split(contact_str, ":")[1])
    IN  IF tokens = <<>> THEN Raised("IndexError") ELSE Returned(tokens[1])

-----------------------------------------------------------------------------
(* Normalizer harness: _ce_fqdn on every contact string up to MaxLen *)

NormAlphabet == {"a", "b", "9", ":", " "}

NormInit ==
    /\ contact \in StringsUpTo(NormAlphabet, MaxLen)
    /\ host = NotRun
    /\ refqdn = NotRun
    /\ npc = "input"
    /\ DiscIdle
    /\ TallyIdle
    /\ RepoIdle
    /\ SeriesIdle

Normalize ==
    /\ npc = "input"
    /\ host' = _ce_fqdn(contact)
    /\ npc' = "normalized"
    /\ UNCHANGED <<contact, refqdn, discVars, tallyVars, repoVars, seriesVars>>

Renormalize ==
    /\ npc = "normalized"
    /\ host.exc = "None"
    /\ refqdn' = _ce_fqdn(host.val)
    /\ npc' = "renormalized"
    /\ UNCHANGED <<contact, host, discVars, tallyVars, repoVars, seriesVars>>

NormNext == Normalize \/ Renormalize

-----------------------------------------------------------------------------
(* ce_stats._parse_gwms_config, get_gwms_ces, get_panda_ces *)

\* dict.get(key, default) and Element.get(key, default)
Get(d, key, default) == IF key \in DOMAIN d THEN d[key] ELSE default

\* the if-clause of _parse_gwms_config's comprehension
Admitted(entry) ==
    /\ Get(entry, "enabled", "") = "True"
    /\ Get(entry, "gridtype", "") = "condor"

\* the set comprehension of _parse_gwms_config: one _ce_fqdn call per admitted
\* entry, whose exception leaves the comprehension
_parse_gwms_config(entries) ==
    LET calls == {_ce_fqdn(Get(e, "gatekeeper", <<>>)) : e \in {x \in entries : Admitted(x)}}
    IN  IF \E c \in calls : c.exc # "None"
        THEN Raised((CHOOSE c \in calls : c.exc # "None").exc)
        ELSE Returned({c.val : c \in calls})

\* '-itb.xml' in filename
IsItb(filename) == \E i \in 1..Len(filename) : filename[i] = "-itb.xml"

\* get_gwms_ces(repo_dir, production): the union over the globbed documents
get_gwms_ces(docs, production) ==
    LET factory_configs == {f \in DOMAIN docs : production => ~IsItb(f)}
        parsed == {_parse_gwms_config(docs[f]) : f \in factory_configs}
    IN  IF \E r \in parsed : r.exc # "None"
        THEN Raised((CHOOSE r \in parsed : r.exc # "None").exc)
        ELSE Returned(UNION {r.val : r \in parsed})

\* the inner for loop of get_panda_ces over resource_info['queues'], from queue i
RECURSIVE panda_queues(_, _, _, _)
panda_queues(queues, i, site, acc) ==
    IF i > Len(queues) THEN Returned(acc)
    ELSE IF "ce_endpoint" \notin DOMAIN queues[i] THEN Raised("KeyError")
    ELSE LET endpoint == _ce_fqdn(queues[i]["ce_endpoint"])
         IN  IF endpoint.exc # "None" THEN Raised(endpoint.exc)
             ELSE panda_queues(queues, i + 1, site,
                      IF site \in DOMAIN acc
                      THEN [acc EXCEPT ![site] = @ \cup {endpoint.val}]
                      ELSE acc @@ (site :> {endpoint.val}))

\* the outer for loop of get_panda_ces over panda_resources.items(), from record i
RECURSIVE panda_resources_loop(_, _, _)
panda_resources_loop(resources, i, acc) ==
    IF i > Len(resources) THEN Returned(acc)
    ELSE LET resource_info == resources[i]
         IN  IF "atlas_site" \notin DOMAIN resource_info THEN Raised("KeyError")
             ELSE IF "queues" \notin DOMAIN resource_info THEN Raised("KeyError")
             ELSE LET inner == panda_queues(resource_info["queues"], 1,
                                            resource_info["atlas_site"], acc)
                  IN  IF inner.exc # "None" THEN inner
                      ELSE panda_resources_loop(resources, i + 1, inner.val)

\* get_panda_ces on a fetched and decoded response
get_panda_ces(resources) == panda_resources_loop(resources, 1, EmptyDict)

\* set.union(gwms_ces, d) of a set and a dict: iterating a dict yields its keys
union_with_dict(s, d) == s \cup DOMAIN d

-----------------------------------------------------------------------------
(* Endpoint discovery: lines 12-15 of global-ce-stats.py main *)

Ce1Port == <<"ce1.example.org", ":", "9619">>

Ce2Bare == <<"ce2.example.org">>

Ce3Port == <<"ce3.example.org", ":", "9619">>

Ce1Twice == <<"ce1.example.org", " ", "ce1.example.org", ":", "9619">>

\* an <entry> element: the attributes it carries
EntryPool ==
    {[gatekeeper |-> g, enabled |-> e, gridtype |-> t] :
        g \in {Ce1Port, Ce2Bare, <<>>}, e \in {"True", "False"}, t \in {"condor", "gt5"}}
    \cup {[enabled |-> "True", gridtype |-> "condor"],
          [gatekeeper |-> Ce1Port, gridtype |-> "condor"],
          [gatekeeper |-> Ce1Port, enabled |-> "True"]}

\* the sets of at most n entries
EntrySets(n) ==
    IF n = 0 THEN {{}}
    ELSE IF n = 1 THEN {{}} \cup {{e} : e \in EntryPool}
    ELSE {S \in SUBSET EntryPool : Cardinality(S) <= n}

ProductionDoc == <<"factory", ".xml">>

ItbDoc == <<"factory", "-itb.xml">>

\* a work tree: a production document and a non-production one, at most
\* MaxEntries entries in all and at most one of them non-production
Snapshots ==
    {(ProductionDoc :> p) @@ (ItbDoc :> {}) : p \in EntrySets(MaxEntries)}
    \cup {(ProductionDoc :> p) @@ (ItbDoc :> {i}) :
              p \in EntrySets(MaxEntries - 1), i \in EntryPool}

QueueLists ==
    {<<>>,
     <<[ce_endpoint |-> Ce3Port]>>,
     <<[ce_endpoint |-> Ce3Port], [ce_endpoint |-> Ce1Twice]>>,
     <<[other |-> <<>>]>>}

ResourcePool ==
    {[atlas_site |-> s, queues |-> q] : s \in {<<"SITE_A">>, <<"SITE_B">>}, q \in QueueLists}
    \cup {[queues |-> <<[ce_endpoint |-> Ce3Port]>>]}
    \cup {[atlas_site |-> <<"SITE_A">>]}

Registries == UNION {[1..k -> ResourcePool] : k \in 0..MaxResources}

DiscInit ==
    /\ snapshot \in Snapshots
    /\ registry \in Registries
    /\ gwms_ces = {}
    /\ panda_ces = EmptyDict
    /\ ce_fqdns = {}
    /\ dexc = "None"
    /\ dpc = "start"
    /\ NormIdle
    /\ TallyIdle
    /\ RepoIdle
    /\ SeriesIdle

\* lines 12-13: with GitRepo(...) as repo: gwms_ces = get_gwms_ces(repo.path)
ExtractConfig ==
    /\ dpc = "start"
    /\ \E cloned \in BOOLEAN :
          LET r == IF cloned THEN get_gwms_ces(snapshot, TRUE)
                   ELSE Raised("RuntimeError")
          IN  IF r.exc = "None"
              THEN /\ gwms_ces' = r.val
                   /\ dpc' = "extracted"
                   /\ UNCHANGED dexc
              ELSE /\ dexc' = r.exc
                   /\ dpc' = "raised"
                   /\ UNCHANGED gwms_ces
    /\ UNCHANGED <<snapshot, registry, panda_ces, ce_fqdns, normVars, tallyVars, repoVars, seriesVars>>

\* line 15, the argument: get_panda_ces(), whose urlopen and json.loads may raise
QueryRegistry ==
    /\ dpc = "extracted"
    /\ \E fetched \in BOOLEAN :
          LET r == IF fetched THEN get_panda_ces(registry) ELSE Raised("URLError")
          IN  IF r.exc = "None"
              THEN /\ panda_ces' = r.val
                   /\ dpc' = "queried"
                   /\ UNCHANGED dexc
              ELSE /\ dexc' = r.exc
                   /\ dpc' = "raised"
                   /\ UNCHANGED panda_ces
    /\ UNCHANGED <<snapshot, registry, gwms_ces, ce_fqdns, normVars, tallyVars, repoVars, seriesVars>>

\* line 15, the call: ce_fqdns = set.union(gwms_ces, <the dict>)
Reconcile ==
    /\ dpc = "queried"
    /\ ce_fqdns' = union_with_dict(gwms_ces, panda_ces)
    /\ dpc' = "reconciled"
    /\ UNCHANGED <<snapshot, registry, gwms_ces, panda_ces, dexc, normVars, tallyVars, repoVars, seriesVars>>

DiscNext == ExtractConfig \/ QueryRegistry \/ Reconcile

-----------------------------------------------------------------------------
(* ce_stats.get_ce_jobs and the report loop of global-ce-stats.py *)

\* an exception with its str()
RaisedWith(e, msg) == [exc |-> e, val |-> msg]

CONDOR_STATUS_MAP ==
    (1 :> "IDLE") @@ (2 :> "RUNNING") @@ (3 :> "REMOVED") @@ (4 :> "COMPLETED")
    @@ (5 :> "HELD") @@ (6 :> "TRANSFERRING_OUTPUT") @@ (7 :> "SUSPENDED")

\* CONDOR_STATUS_MAP.values()
StatusNames == {CONDOR_STATUS_MAP[c] : c \in DOMAIN CONDOR_STATUS_MAP}

\* {status: 0 for status in CONDOR_STATUS_MAP.values()}
ZeroStats == [status \in StatusNames |-> 0]

\* the for loop of get_ce_jobs over the records xquery yields, from record i;
\* the iterator raises after its last record when the query fails part-way
RECURSIVE count_jobs(_, _, _)
count_jobs(answer, i, job_stats) ==
    IF i > Len(answer.jobs)
    THEN IF answer.fail = "enumerate"
         THEN RaisedWith("RuntimeError", "enumerate failed")
         ELSE Returned(job_stats)
    ELSE LET job_code == answer.jobs[i]
         IN  IF job_code \notin DOMAIN CONDOR_STATUS_MAP
             THEN RaisedWith("KeyError", ToString(job_code))
             ELSE count_jobs(answer, i + 1,
                      [job_stats EXCEPT ![CONDOR_STATUS_MAP[job_code]] = @ + 1])

\* a get_ce_jobs that drops a record of unrecognized status instead of raising
RECURSIVE count_jobs_skip_unknown(_, _, _)
count_jobs_skip_unknown(answer, i, job_stats) ==
    IF i > Len(answer.jobs)
    THEN IF answer.fail = "enumerate"
         THEN RaisedWith("RuntimeError", "enumerate failed")
         ELSE Returned(job_stats)
    ELSE LET job_code == answer.jobs[i]
         IN  count_jobs_skip_unknown(answer, i + 1,
                 IF job_code \notin DOMAIN CONDOR_STATUS_MAP THEN job_stats
                 ELSE [job_stats EXCEPT ![CONDOR_STATUS_MAP[job_code]] = @ + 1])

get_ce_jobs_skip_unknown(answer) ==
    IF answer.fail = "connect" THEN RaisedWith("IOError", "connect failed")
    ELSE IF answer.fail = "locate" THEN RaisedWith("IOError", "locate failed")
    ELSE count_jobs_skip_unknown(answer, 1, ZeroStats)

\* get_ce_jobs(fqdn) against a collector and schedd that behave as `answer` says
get_ce_jobs(answer) ==
    IF answer.fail = "connect" THEN RaisedWith("IOError", "connect failed")
    ELSE IF answer.fail = "locate" THEN RaisedWith("IOError", "locate failed")
    ELSE count_jobs(answer, 1, ZeroStats)

\* d.update(e): e's keys win
update(d, e) == e @@ d

\* the body of main's for loop up to writer.writerow: the row of one endpoint
report_row(fqdn, answer) ==
    LET row == ("HOSTNAME" :> fqdn)
        jobs == get_ce_jobs(answer)
    IN  IF jobs.exc = "None"
        THEN update(row, jobs.val)
        ELSE update(update(row, ZeroStats), ("COMMUNICATION_ERROR" :> jobs.val))

\* the status codes the modelled schedds report: the first two and the last of
\* the map, and one outside it
JobCodes == {1, 2, 7, 8}

JobLists == UNION {[1..k -> JobCodes] : k \in 0..MaxJobs}

\* what one endpoint's collector and schedd do: fail at connect, fail at
\* locate, yield `jobs` and then fail, or yield `jobs` and end
Answers ==
    {[fail |-> f, jobs |-> <<>>] : f \in {"connect", "locate"}}
    \cup {[fail |-> f, jobs |-> j] : f \in {"enumerate", "none"}, j \in JobLists}

\* main after line 15: the locals gwms_ces and ce_fqdns; the snapshot is removed
\* and the registry response is out of scope
TallyInit ==
    /\ NormIdle
    /\ snapshot = [f \in {} |-> {}]
    /\ registry = <<>>
    /\ gwms_ces \in {{}, {<<"ce1.example.org">>}}
    /\ panda_ces \in {EmptyDict, <<"SITE_A">> :> {<<"ce3.example.org">>}}
    /\ ce_fqdns = union_with_dict(gwms_ces, panda_ces)
    /\ dexc = "None"
    /\ dpc = "reconciled"
    /\ todo = ce_fqdns
    /\ answers = [h \in {} |-> {}]
    /\ rows = <<>>
    /\ tpc = "loop"
    /\ RepoIdle
    /\ SeriesIdle

\* lines 29-37: one iteration of `for fqdn in ce_fqdns`
TallyEndpoint ==
    /\ tpc = "loop"
    /\ \E fqdn \in todo, answer \in Answers :
          /\ rows' = Append(rows, report_row(fqdn, answer))
          /\ answers' = answers @@ (fqdn :> answer)
          /\ todo' = todo \ {fqdn}
    /\ UNCHANGED <<tpc, normVars, discVars, repoVars, seriesVars>>

\* the for loop is exhausted and main returns
FinishReport ==
    /\ tpc = "loop"
    /\ todo = {}
    /\ tpc' = "done"
    /\ UNCHANGED <<todo, answers, rows, normVars, discVars, repoVars, seriesVars>>

TallyNext == TallyEndpoint \/ FinishReport

-----------------------------------------------------------------------------
(* ce_stats.GitRepo *)

(* Time.  The clock has two instants a day: instant 2d is midnight of day d,   *)
(* instant 2d + 1 is later on day d.  A commit's date is an instant.  git      *)
(* reads a --before=YYYY-MM-DD that names no time of day as that day at the    *)
(* wall clock's present time of day, and lists the commits dated at or before  *)
(* that instant.                                                               *)
Midnight(day) == 2 * day

Instants == 0..(Midnight(MaxDay) + 1)

\* the parents a commit may have: none, one, or two (a merge), all older
ParentChoices(c) ==
    {<<>>} \cup {<<p>> : p \in 1..(c - 1)}
           \cup {x \in (1..(c - 1)) \X (1..(c - 1)) : x[1] # x[2]}

\* commit c and its ancestors in the graph `parents`
RECURSIVE Ancestors(_, _)
Ancestors(parents, c) ==
    {c} \cup UNION {Ancestors(parents, parents[c][i]) : i \in 1..Len(parents[c])}

\* the graphs of n commits: each commit's parents, the commits numbered in the
\* order of their dates
RECURSIVE Graphs(_)
Graphs(n) ==
    IF n = 0 THEN {<<>>}
    ELSE {Append(g, ps) : g \in Graphs(n - 1), ps \in ParentChoices(n)}

\* those whose tip n reaches every commit: what a clone of master holds
ParentMaps(n) == {f \in Graphs(n) : Ancestors(f, n) = 1..n}

\* the commits' dates: a later commit has a later date
RECURSIVE DateMaps(_)
DateMaps(n) ==
    IF n = 0 THEN {<<>>}
    ELSE {x \in {Append(d, t) : d \in DateMaps(n - 1), t \in Instants} :
             n = 1 \/ x[n - 1] < x[n]}

Repositories ==
    UNION {{[n |-> n, parents |-> f, date |-> d] : f \in ParentMaps(n), d \in DateMaps(n)} :
              n \in 1..NCommits}

\* --first-parent: the chain from c along each commit's first parent, tip first
RECURSIVE FirstParentChain(_, _)
FirstParentChain(repo, c) ==
    IF repo.parents[c] = <<>> THEN <<c>>
    ELSE <<c>> \o FirstParentChain(repo, repo.parents[c][1])

\* the members of a sequence
Range(seq) == {seq[i] : i \in 1..Len(seq)}

\* git rev-list -n1 [--first-parent] [--max-parents=0] [--before=...] <start>:
\* the first commit rev-list prints, 0 when it prints none.  rev-list walks
\* from <start> by commit date, newest first, and a child is newer than its
\* parents, so the first commit printed is the newest that passes the filters.
\* `before` is the instant --before names, -1 without the option.
rev_list_n1(repo, start, first_parent, max_parents_0, before) ==
    LET walked == IF first_parent THEN Range(FirstParentChain(repo, start))
                  ELSE Ancestors(repo.parents, start)
        shown == {c \in walked :
                     /\ max_parents_0 => repo.parents[c] = <<>>
                     /\ before # -1 => repo.date[c] <= before}
    IN  IF shown = {} THEN 0
        ELSE CHOOSE c \in shown : \A x \in shown : repo.date[x] <= repo.date[c]

\* the instant git makes of '--before={0}'.format(date_obj.strftime('%Y-%m-%d'))
\* when the wall clock's time of day is `now` (0: midnight, 1: later)
before_option(date_obj, now) == Midnight(date_obj) + now

\* a checkout_at_date that walks from the work tree's HEAD, not from master
commit_for_date_from_HEAD(repo, master_ref, HEAD_ref, date_obj, now) ==
    LET earliest_commit == rev_list_n1(repo, HEAD_ref, FALSE, TRUE, -1)
        commit_at_date == rev_list_n1(repo, HEAD_ref, TRUE, FALSE,
                                      before_option(date_obj, now))
    IN  IF commit_at_date = 0 THEN earliest_commit ELSE commit_at_date

\* lines 96-102 of checkout_at_date: the commit it goes on to check out.  Both
\* rev-list calls name the branch master, whatever the work tree is at
commit_for_date(repo, master_ref, HEAD_ref, date_obj, now) ==
    LET earliest_commit == rev_list_n1(repo, master_ref, FALSE, TRUE, -1)
        commit_at_date == rev_list_n1(repo, master_ref, TRUE, FALSE,
                                      before_option(date_obj, now))
    IN  IF commit_at_date = 0 THEN earliest_commit ELSE commit_at_date

\* the dates a caller asks for: from day 0 to the day after the last commit
QueryDays == 0..(MaxDay + 1)

RepoInit ==
    /\ origin \in Repositories
    /\ dirs = {}
    /\ path = 0
    /\ master = 0
    /\ HEAD = 0
    /\ head = 0
    /\ query = NoQuery
    /\ gpc = "start"
    /\ NormIdle
    /\ DiscIdle
    /\ TallyIdle
    /\ SeriesIdle

\* GitRepo.__init__ and __enter__: mkdtemp, git clone, rev-list for self.head.
\* Either git command may exit non-zero, and _git_run_command then raises
\* RuntimeError out of the constructor: the with statement is never entered.
Construct ==
    /\ gpc = "start"
    /\ path' = 1
    /\ dirs' = dirs \cup {1}
    /\ \E git \in {"ok", "clone fails", "rev-list fails"} :
          /\ master' = IF git = "clone fails" THEN 0 ELSE origin.n
          /\ HEAD' = master'
          /\ head' = IF git = "ok"
                     THEN rev_list_n1(origin, master', TRUE, FALSE, -1)
                     ELSE 0
          /\ gpc' = IF git = "ok" THEN "in_scope" ELSE "raised"
    /\ UNCHANGED <<origin, query, normVars, discVars, tallyVars, seriesVars>>

\* checkout_at_date(date_obj) in the with body, the wall clock at `now`
CheckoutAtDate ==
    /\ gpc = "in_scope"
    /\ \E date_obj \in QueryDays, now \in {0, 1} :
          LET commit_at_date == commit_for_date(origin, master, HEAD, date_obj, now)
          IN  /\ HEAD' = commit_at_date
              /\ head' = commit_at_date
              /\ query' = [date_obj |-> date_obj, now |-> now, from |-> HEAD]
    /\ UNCHANGED <<origin, dirs, path, master, gpc, normVars, discVars, tallyVars, seriesVars>>

\* a git command of checkout_at_date exits non-zero: RuntimeError leaves the body
CheckoutFails ==
    /\ gpc = "in_scope"
    /\ gpc' = "body_raised"
    /\ UNCHANGED <<origin, dirs, path, master, HEAD, head, query,
                   normVars, discVars, tallyVars, seriesVars>>

\* GitRepo.__exit__, the body having returned or raised: shutil.rmtree(self.path)
ExitScope ==
    /\ gpc \in {"in_scope", "body_raised"}
    /\ dirs' = dirs \ {path}
    /\ HEAD' = 0
    /\ master' = 0
    /\ gpc' = "exited"
    /\ UNCHANGED <<origin, path, head, query, normVars, discVars, tallyVars, seriesVars>>

RepoNext == Construct \/ CheckoutAtDate \/ CheckoutFails \/ ExitScope

-----------------------------------------------------------------------------
(* gwms-ce-counts.py: increment_month and main *)

IsLeap(year) == year % 4 = 0 /\ (year % 100 # 0 \/ year % 400 = 0)

\* calendar.monthrange(year, month)[1]
monthrange_days(year, month) ==
    IF month = 2 THEN (IF IsLeap(year) THEN 29 ELSE 28)
    ELSE IF month \in {4, 6, 9, 11} THEN 30
    ELSE 31

min(a, b) == IF a <= b THEN a ELSE b

\* a < b on datetime.date
date_lt(a, b) ==
    \/ a.year < b.year
    \/ a.year = b.year /\ a.month < b.month
    \/ a.year = b.year /\ a.month = b.month /\ a.day < b.day

\* an increment_month that does not carry December into the next year
increment_month_no_carry(sourcedate) ==
    LET year == sourcedate.year
        month == (sourcedate.month % 12) + 1
        day == min(sourcedate.day, monthrange_days(year, month))
    IN  date(year, month, day)

\* increment_month(sourcedate)
increment_month(sourcedate) ==
    LET year == sourcedate.year + (sourcedate.month \div 12)
        month == (sourcedate.month % 12) + 1
        day == min(sourcedate.day, monthrange_days(year, month))
    IN  date(year, month, day)

\* query_date = date(2016, 5, 1)
StartDate == date(2016, 5, 1)

\* the day after d
next_day(d) ==
    IF d.day < monthrange_days(d.year, d.month) THEN date(d.year, d.month, d.day + 1)
    ELSE IF d.month < 12 THEN date(d.year, d.month + 1, 1)
    ELSE date(d.year + 1, 1, 1)

\* the days on which the driver may be started
Todays ==
    {x \in [year : StartDate.year..(StartDate.year + MaxYears),
            month : 1..12, day : 1..31] : x.day <= monthrange_days(x.year, x.month)}

SeriesInit ==
    /\ today \in Todays
    /\ midnights = 0
    /\ query_date = StartDate
    /\ months = <<>>
    /\ spc = "start"
    /\ NormIdle
    /\ DiscIdle
    /\ TallyIdle
    /\ RepoIdle

\* line 30: with GitRepo(...) as repo, whose constructor may raise
SeriesStart ==
    /\ spc = "start"
    /\ \E cloned \in BOOLEAN : spc' = IF cloned THEN "loop" ELSE "raised"
    /\ UNCHANGED <<today, midnights, query_date, months,
                   normVars, discVars, tallyVars, repoVars>>

\* lines 31-38: one iteration of the while loop.  The row's HTCONDOR_CE_COUNT is
\* the size of the set extracted from the snapshot and takes no part in the loop.
SeriesStep ==
    /\ spc = "loop"
    /\ date_lt(query_date, today)
    /\ months' = Append(months, query_date)
    /\ query_date' = increment_month(query_date)
    /\ UNCHANGED <<today, midnights, spc, normVars, discVars, tallyVars, repoVars>>

\* lines 32-35: checkout_at_date or get_gwms_ces raises and the loop is left
SeriesStepFails ==
    /\ spc = "loop"
    /\ date_lt(query_date, today)
    /\ spc' = "raised"
    /\ UNCHANGED <<today, midnights, query_date, months,
                   normVars, discVars, tallyVars, repoVars>>

\* line 31: the loop test fails and main returns
SeriesExit ==
    /\ spc = "loop"
    /\ ~date_lt(query_date, today)
    /\ spc' = "done"
    /\ UNCHANGED <<today, midnights, query_date, months,
                   normVars, discVars, tallyVars, repoVars>>

\* midnight passes while the driver runs: date.today() is read at every loop test
DayPasses ==
    /\ spc \in {"start", "loop"}
    /\ midnights < MaxMidnights
    /\ today' = next_day(today)
    /\ midnights' = midnights + 1
    /\ UNCHANGED <<query_date, months, spc, normVars, discVars, tallyVars, repoVars>>

SeriesRuns == SeriesStart \/ SeriesStep \/ SeriesStepFails \/ SeriesExit

SeriesNext == SeriesRuns \/ DayPasses

-----------------------------------------------------------------------------
(* Specifications *)

SpecNorm == NormInit /\ [][NormNext]_vars

SpecDiscovery == DiscInit /\ [][DiscNext]_vars

SpecTally == TallyInit /\ [][TallyNext]_vars

SpecRepo == RepoInit /\ [][RepoNext]_vars

\* the driver is a sequential program: it takes its next step while it has one
SpecSeries == SeriesInit /\ [][SeriesNext]_vars /\ WF_vars(SeriesRuns)

-----------------------------------------------------------------------------
(* Claims about endpoint discovery *)

\* the Normalizer as the specification words it: the first whitespace-delimited
\* token, cut at its first ':'
FirstTokenNoPort(s) ==
    LET tokens == split_ws(s)
    IN  IF tokens = <<>> THEN <<>> ELSE split(tokens[1], ":")[1]

\* the production documents' entries
ProductionEntries == UNION {snapshot[f] : f \in {g \in DOMAIN snapshot : ~IsItb(g)}}

\* the contact strings of every queue of every registry record
RegistryContacts ==
    UNION {{registry[i]["queues"][j]["ce_endpoint"] :
               j \in 1..Len(registry[i]["queues"])} : i \in 1..Len(registry)}

\* every record has its site and its queues, every queue its contact string
WellFormed(resource_info) ==
    /\ "atlas_site" \in DOMAIN resource_info
    /\ "queues" \in DOMAIN resource_info
    /\ \A j \in 1..Len(resource_info["queues"]) :
          "ce_endpoint" \in DOMAIN resource_info["queues"][j]

\* C1: the endpoints that are tallied are the normalized gatekeepers of the
\* admitted entries united with the normalized ce_endpoint of every queue of
\* every registry record.
C1_TalliedSetIsUnionOfEndpoints ==
    (dpc = "reconciled" /\ \A i \in 1..Len(registry) : WellFormed(registry[i])) =>
        ce_fqdns = {FirstTokenNoPort(e["gatekeeper"]) :
                        e \in {x \in ProductionEntries :
                                  Admitted(x) /\ "gatekeeper" \in DOMAIN x}}
                   \cup {FirstTokenNoPort(c) : c \in RegistryContacts}

\* C7, the extraction half: a snapshot with an admitted entry whose gatekeeper
\* is missing or empty is extracted without raising.
C7_ExtractionIsTotal ==
    dpc = "raised" => dexc # "IndexError"

\* C8: a record that lacks atlas_site, queues or a queue's ce_endpoint is
\* skipped: get_panda_ces does not raise, and the well-formed records'
\* endpoints are in the result under their sites.
C8_MalformedRecordIsSkipped ==
    /\ dpc = "raised" => dexc # "KeyError"
    /\ dpc \in {"queried", "reconciled"} =>
          \A i \in 1..Len(registry) :
             WellFormed(registry[i]) =>
                \A j \in 1..Len(registry[i]["queues"]) :
                   /\ registry[i]["atlas_site"] \in DOMAIN panda_ces
                   /\ FirstTokenNoPort(registry[i]["queues"][j]["ce_endpoint"])
                         \in panda_ces[registry[i]["atlas_site"]]

-----------------------------------------------------------------------------
(* Claims about the report loop *)

\* the endpoint's query failed: at connect, at locate, part-way through the
\* enumeration, or on a status code outside the map
QueryFails(answer) ==
    \/ answer.fail # "none"
    \/ \E k \in 1..Len(answer.jobs) : answer.jobs[k] \notin DOMAIN CONDOR_STATUS_MAP

\* the number of records of the answer with the status code c
NumberWithCode(answer, c) == Cardinality({k \in 1..Len(answer.jobs) : answer.jobs[k] = c})

\* str() of the failure: the stage that failed, or the first status code
\* outside the map, which ends the enumeration before it can fail
FailureDescription(answer) ==
    LET unknown == {k \in 1..Len(answer.jobs) :
                       answer.jobs[k] \notin DOMAIN CONDOR_STATUS_MAP}
    IN  IF answer.fail \in {"connect", "locate"} THEN answer.fail \o " failed"
        ELSE IF unknown # {}
             THEN ToString(answer.jobs[CHOOSE k \in unknown : \A j \in unknown : k <= j])
             ELSE "enumerate failed"

\* the row of a failed query: zero counts and the description of the failure
IsErrorRow(row, answer) ==
    /\ DOMAIN row = {"HOSTNAME", "COMMUNICATION_ERROR"} \cup StatusNames
    /\ \A status \in StatusNames : row[status] = 0
    /\ row["COMMUNICATION_ERROR"] = FailureDescription(answer)

\* the row of an answered query: the tallied counts and no error
IsCountRow(row, answer) ==
    /\ DOMAIN row = {"HOSTNAME"} \cup StatusNames
    /\ \A c \in DOMAIN CONDOR_STATUS_MAP :
          row[CONDOR_STATUS_MAP[c]] = NumberWithCode(answer, c)

\* C2: whatever subset of the endpoints fails, the loop is never left by an
\* exception and writes exactly one row per endpoint; a failing endpoint's row
\* has seven zero counts and its error described, any other row has its tallied
\* counts and no error.
C2_FailureIsolation ==
    /\ tpc \in {"loop", "done"}
    /\ tpc = "done" => todo = {}
    /\ Len(rows) = Cardinality(ce_fqdns \ todo)
    /\ {rows[i]["HOSTNAME"] : i \in 1..Len(rows)} = ce_fqdns \ todo
    /\ \A i \in 1..Len(rows) :
          LET answer == answers[rows[i]["HOSTNAME"]]
          IN  IF QueryFails(answer)
              THEN IsErrorRow(rows[i], answer)
              ELSE IsCountRow(rows[i], answer)

\* C2 witness: the report is complete; the first endpoint queried failed on an
\* unrecognized status code after a recognized one, the second was tallied
C2_Witness ==
    /\ tpc = "done"
    /\ Len(rows) = 2
    /\ answers[rows[1]["HOSTNAME"]] = [fail |-> "none", jobs |-> <<1, 8>>]
    /\ rows[1]["COMMUNICATION_ERROR"] = "8"
    /\ answers[rows[2]["HOSTNAME"]] = [fail |-> "none", jobs |-> <<2, 2>>]
    /\ rows[2]["RUNNING"] = 2

-----------------------------------------------------------------------------
(* Claims about GitRepo *)

\* master's first-parent chain in the cloned repository, tip first
PrimaryChain == FirstParentChain(origin, origin.n)

\* the places on the chain of the commits dated strictly before midnight of the day
BeforeMidnight(day) ==
    {i \in 1..Len(PrimaryChain) : origin.date[PrimaryChain[i]] < Midnight(day)}

\* a checkout_at_date call has returned and the scope is still open
CheckedOut == gpc = "in_scope" /\ query # NoQuery

\* C3: when the chain has a commit dated strictly before midnight of D, the
\* commit checked out is the one of them nearest the tip; for a D after the
\* latest commit that is the tip.
C3_LatestBeforeMidnight ==
    (CheckedOut /\ BeforeMidnight(query.date_obj) # {}) =>
        LET places == BeforeMidnight(query.date_obj)
        IN  HEAD = PrimaryChain[CHOOSE i \in places : \A j \in places : i <= j]

\* C4: when no commit of the chain is dated strictly before midnight of D, the
\* commit checked out is E, the chain's earliest commit.
C4_EarliestOnChain ==
    (CheckedOut /\ BeforeMidnight(query.date_obj) = {}) =>
        HEAD = PrimaryChain[Len(PrimaryChain)]

\* C5: once the resolver's scope has ended, by the constructor raising or by
\* the with statement being left, the directory mkdtemp made is gone.
C5_SnapshotRemoved ==
    gpc \in {"exited", "raised"} => path \notin dirs

\* C10: after any sequence of checkout_at_date calls the snapshot is still the
\* one directory made at construction, and the commit checked out and kept in
\* self.head is the one a fresh clone would resolve the last date to.
C10_RecheckoutInPlace ==
    CheckedOut =>
        /\ path = 1
        /\ dirs = {1}
        /\ HEAD = head
        /\ head = commit_for_date(origin, origin.n, origin.n, query.date_obj, query.now)

\* C10 witness: an earlier checkout had left the work tree at the oldest commit
\* of a history of three, detached from master, and this one resolved to the tip
C10_Witness ==
    /\ CheckedOut
    /\ origin.n = 3
    /\ query.from = 1
    /\ HEAD = 3
    /\ head = 3

-----------------------------------------------------------------------------
(* Claims about the historical series driver *)

\* the first day of the calendar month after d's
FirstOfNextMonth(d) ==
    IF d.month = 12 THEN date(d.year + 1, 1, 1) ELSE date(d.year, d.month + 1, 1)

\* the rows so far: the first probes 2016-05-01, each later one the first of
\* the next calendar month, all strictly before today, one per date probed
SeriesRowsInOrder ==
    /\ months # <<>> => months[1] = date(2016, 5, 1)
    /\ \A i \in 1..(Len(months) - 1) :
          /\ months[i + 1] = FirstOfNextMonth(months[i])
          /\ date_lt(months[i], months[i + 1])
    /\ \A i \in 1..Len(months) : date_lt(months[i], today)
    /\ query_date = IF months = <<>> THEN date(2016, 5, 1)
                    ELSE FirstOfNextMonth(months[Len(months)])
    /\ spc = "done" => ~date_lt(query_date, today)

\* C9: the loop terminates, emits one row per probed date, 2016-05-01 and then
\* month by month, every one strictly before today, and stops at the first
\* stepped date that is not.
C9_MonthlySeries ==
    /\ []SeriesRowsInOrder
    /\ <>(spc \in {"done", "raised"})

\* C9 witness: the loop has ended of itself after stepping over a year's end
C9_Witness ==
    /\ spc = "done"
    /\ Len(months) >= 9
    /\ months[8] = date(2016, 12, 1)
    /\ months[9] = date(2017, 1, 1)

-----------------------------------------------------------------------------
(* Claims about the normalizer *)

\* a non-empty string with neither ':' nor whitespace in it
IsToken(s) == Len(s) > 0 /\ \A i \in 1..Len(s) : s[i] # ":" /\ ~IsSpace(s[i])

\* the lexemes i..j of s
Part(s, i, j) == SubSeq(s, i, j)

\* C6: for non-empty host names h, h1, h2 (no ':' and no whitespace) and ports
\* p, _ce_fqdn("h:p") = h, _ce_fqdn("h") = h, _ce_fqdn("h1 h2:p") = h1, and
\* _ce_fqdn of such an output returns it unchanged.
C6_NormalizerForms ==
    LET n == Len(contact)
        IsH == IsToken(contact)
        IsHP(k) == /\ contact[k] = ":"
                   /\ IsToken(Part(contact, 1, k - 1))
                   /\ IsToken(Part(contact, k + 1, n))
        IsHHP(j, k) == /\ j < k
                       /\ contact[j] = " "
                       /\ contact[k] = ":"
                       /\ IsToken(Part(contact, 1, j - 1))
                       /\ IsToken(Part(contact, j + 1, k - 1))
                       /\ IsToken(Part(contact, k + 1, n))
    IN  /\ npc # "input" =>
             /\ IsH => host = Returned(contact)
             /\ \A k \in 1..n :
                   IsHP(k) => host = Returned(Part(contact, 1, k - 1))
             /\ \A j \in 1..n : \A k \in 1..n :
                   IsHHP(j, k) => host = Returned(Part(contact, 1, j - 1))
        /\ npc = "renormalized" => refqdn = host

\* C6 witness: the decorated form "h1 h2:p" was normalized to h1 and normalized again
C6_Witness ==
    /\ npc = "renormalized"
    /\ contact = <<"a", " ", "b", ":", "9">>
    /\ host = Returned(<<"a">>)
    /\ refqdn = Returned(<<"a">>)

\* C7: _ce_fqdn of the empty contact string returns the empty identifier and
\* raises nothing.
C7_EmptyContactReturnsEmpty ==
    (npc # "input" /\ contact = <<>>) => host = Returned(<<>>)

====
